---- MODULE Spec2Model ----
(***************************************************************************)
(* State-machine model of delphos-to-google-csv.py: the conversion of      *)
(* Delphos roster rows into Google Suite accounts, reconciled against the  *)
(* accounts of an existing Google Suite export.                            *)
(*                                                                         *)
(* Text is modelled as a sequence of one-character strings, so that the    *)
(* string operations of the program (split, strip, lower, the accent table,*)
(* the e-mail regular expression, int/str) are computed character by       *)
(* character.  An organisational path is the sequence of its segments.     *)
(***************************************************************************)
EXTENDS Integers, Sequences, FiniteSets, TLC

(***************************************************************************)
(* Bounds of the model.                                                    *)
(***************************************************************************)
MaxRows == 2
MaxCourses == 2

(***************************************************************************)
(* Module constants of the program.                                        *)
(***************************************************************************)
INVALID_CHARACTERS == <<"á", "é", "í", "ó", "ú", "ñ", "Á", "É", "Í", "Ó", "Ú", "Ñ">>
REPLACEMENT_CHARACTERS == <<"a", "e", "i", "o", "u", "n", "A", "E", "I", "O", "U", "N">>
LEAVE_PASSWORD_STR == "****"
EXPECTED_COLS_STUDENT == 3

(***************************************************************************)
(* Characters and the built-in string operations the program uses.         *)
(***************************************************************************)
UpperCase ==
    <<"A", "B", "C", "D", "E", "F", "G", "H", "I", "J", "K", "L", "M", "N", "O", "P", "Q",
      "R", "S", "T", "U", "V", "W", "X", "Y", "Z", "Á", "É", "Í", "Ó", "Ú", "Ñ", "Ü", "Ò">>
LowerCase ==
    <<"a", "b", "c", "d", "e", "f", "g", "h", "i", "j", "k", "l", "m", "n", "o", "p", "q",
      "r", "s", "t", "u", "v", "w", "x", "y", "z", "á", "é", "í", "ó", "ú", "ñ", "ü", "ò">>
DigitChars == <<"0", "1", "2", "3", "4", "5", "6", "7", "8", "9">>
Whitespace == {" ", "\t"}

Range(s) == {s[i] : i \in 1..Len(s)}

\* str.index: the first position of c in s
IndexOf(s, c) == CHOOSE i \in 1..Len(s) : s[i] = c /\ \A j \in 1..(i - 1) : s[j] # c

\* the pattern class [A-Za-z\.]
IsLetterOrDot(c) == c = "." \/ \E i \in 1..26 : c = UpperCase[i] \/ c = LowerCase[i]

\* the pattern class \d
IsDigit(c) == c \in Range(DigitChars)

\* str.lower, one character
LowerChar(c) == IF c \in Range(UpperCase) THEN LowerCase[IndexOf(UpperCase, c)] ELSE c

\* str.lower
Lower(s) == [i \in 1..Len(s) |-> LowerChar(s[i])]

\* str.strip
Strip(s) ==
    LET keep == {i \in 1..Len(s) : s[i] \notin Whitespace}
    IN  IF keep = {} THEN <<>>
        ELSE LET lo == CHOOSE i \in keep : \A j \in keep : i <= j
                 hi == CHOOSE i \in keep : \A j \in keep : j <= i
             IN  SubSeq(s, lo, hi)

\* whether sep occurs in s at position i
OccursAt(s, sep, i) ==
    /\ i + Len(sep) - 1 <= Len(s)
    /\ \A k \in 1..Len(sep) : s[i + k - 1] = sep[k]

\* str.split(sep): the pieces between the occurrences of sep, left to right
RECURSIVE Split(_, _)
Split(s, sep) ==
    LET hits == {i \in 1..Len(s) : OccursAt(s, sep, i)}
    IN  IF hits = {} THEN <<s>>
        ELSE LET first == CHOOSE i \in hits : \A j \in hits : i <= j
             IN  <<SubSeq(s, 1, first - 1)>>
                     \o Split(SubSeq(s, first + Len(sep), Len(s)), sep)

\* str.split(): the whitespace-delimited tokens
RECURSIVE Tokens(_)
Tokens(s) ==
    LET t == Strip(s)
        ws == {i \in 1..Len(t) : t[i] \in Whitespace}
    IN  IF t = <<>> THEN <<>>
        ELSE IF ws = {} THEN <<t>>
        ELSE LET first == CHOOSE i \in ws : \A j \in ws : i <= j
             IN  <<SubSeq(t, 1, first - 1)>> \o Tokens(SubSeq(t, first, Len(t)))

\* s[-2:]
LastTwo(s) == IF Len(s) <= 2 THEN s ELSE SubSeq(s, Len(s) - 1, Len(s))

\* int(s) of a non-empty string of digits
RECURSIVE IntOf(_)
IntOf(s) ==
    IF s = <<>> THEN 0
    ELSE 10 * IntOf(SubSeq(s, 1, Len(s) - 1)) + (IndexOf(DigitChars, s[Len(s)]) - 1)

\* str(n) of a natural number
RECURSIVE StrOf(_)
StrOf(n) ==
    IF n < 10 THEN <<DigitChars[n + 1]>>
    ELSE StrOf(n \div 10) \o <<DigitChars[(n % 10) + 1]>>

(***************************************************************************)
(* remove_accent, remove_all_accents                                       *)
(***************************************************************************)
remove_accent(letter) ==
    IF letter \in Range(INVALID_CHARACTERS)
    THEN REPLACEMENT_CHARACTERS[IndexOf(INVALID_CHARACTERS, letter)]
    ELSE letter

remove_all_accents(word) == [i \in 1..Len(word) |-> remove_accent(word[i])]

(***************************************************************************)
(* SchoolPerson._email_regex and re.sub with it.  The pattern is one or     *)
(* more letters or dots (group 1), then any number of digits (group 2),    *)
(* then "@".                                                               *)
(* A match starting at position i takes the whole run of letters and dots  *)
(* from i, then the whole run of digits, and needs "@" right after: a      *)
(* shorter run is followed by a letter or a digit, never by "@", so        *)
(* backtracking finds nothing more.                                        *)
(***************************************************************************)
LetterRunEnd(s, i) ==
    CHOOSE j \in i..Len(s) :
        /\ \A k \in i..j : IsLetterOrDot(s[k])
        /\ (j = Len(s) \/ ~IsLetterOrDot(s[j + 1]))

DigitRunEnd(s, j) ==
    CHOOSE k \in j..Len(s) :
        /\ \A m \in (j + 1)..k : IsDigit(s[m])
        /\ (k = Len(s) \/ ~IsDigit(s[k + 1]))

MatchesAt(s, i) ==
    /\ IsLetterOrDot(s[i])
    /\ LET k == DigitRunEnd(s, LetterRunEnd(s, i))
       IN  k + 1 <= Len(s) /\ s[k + 1] = "@"

\* match.groups() and match.end() of the match starting at i
MatchAt(s, i) ==
    LET j == LetterRunEnd(s, i)
        k == DigitRunEnd(s, j)
    IN  [main_user_name |-> SubSeq(s, i, j), last_nums |-> SubSeq(s, j + 1, k), end |-> k + 1]

\* markers of an exception raised while a text is computed
ValueError == "ValueError"
IndexError == "IndexError"
Raised(text) == ValueError \in Range(text) \/ IndexError \in Range(text)

\* SchoolPerson._new_user_name_email: raises only for a false match, and re.sub
\* calls it with match objects, which are never false
SchoolPerson_new_user_name_email(match) == <<>>

Teacher_new_user_name_email(match) ==
    LET base == SchoolPerson_new_user_name_email(match)
        \* line 265 builds the incremented name and drops it
        dropped == IF match.last_nums # <<>>
                   THEN match.main_user_name \o StrOf(IntOf(match.last_nums) + 1) \o <<"@">>
                   ELSE <<>>
    IN  match.main_user_name \o <<"2", "@">>

Student_new_user_name_email(match) ==
    LET base == SchoolPerson_new_user_name_email(match)
    IN  IF match.last_nums = <<>> THEN <<ValueError>>    \* int("")
        ELSE LET next_nums == IntOf(match.last_nums) + 1
                 text == IF next_nums < 10 THEN <<"0">> \o StrOf(next_nums)
                         ELSE StrOf(next_nums)
             IN  match.main_user_name \o text \o <<"@">>

new_user_name_email(cls, match) ==
    IF cls = "Teacher" THEN Teacher_new_user_name_email(match)
    ELSE Student_new_user_name_email(match)

\* _email_regex.sub(self._new_user_name_email, email): every match, left to right
RECURSIVE email_regex_sub(_, _)
email_regex_sub(cls, s) ==
    LET starts == {i \in 1..Len(s) : MatchesAt(s, i)}
    IN  IF starts = {} THEN s
        ELSE LET i == CHOOSE x \in starts : \A y \in starts : x <= y
                 m == MatchAt(s, i)
             IN  SubSeq(s, 1, i - 1) \o new_user_name_email(cls, m)
                     \o email_regex_sub(cls, SubSeq(s, m.end + 1, Len(s)))

\* SchoolPerson.update_email: the new value of self.email (or a raised marker)
update_email(cls, email) == email_regex_sub(cls, email)

(***************************************************************************)
(* _build_email and generate_account_attributes                            *)
(***************************************************************************)
Teacher_build_email(firstname, lastname, domain) ==
    IF Tokens(lastname) = <<>> \/ firstname = <<>> THEN <<IndexError>>
    ELSE LET first_surname == Tokens(lastname)[1]
             username == remove_all_accents(Lower(<<firstname[1]>>) \o Lower(first_surname))
         IN  username \o <<"@">> \o domain

\* Student._build_email without the lower() of the first letter
Student_build_email_FirstAsIs(firstname, lastname, enrollment_id, domain) ==
    IF Tokens(lastname) = <<>> \/ firstname = <<>> THEN <<IndexError>>
    ELSE LET first_surname == Tokens(lastname)[1]
             user_name == remove_all_accents(<<firstname[1]>> \o Lower(first_surname))
         IN  user_name \o LastTwo(enrollment_id) \o <<"@">> \o domain

Student_build_email(firstname, lastname, enrollment_id, domain) ==
    IF Tokens(lastname) = <<>> \/ firstname = <<>> THEN <<IndexError>>
    ELSE LET first_surname == Tokens(lastname)[1]
             user_name == remove_all_accents(Lower(<<firstname[1]>>) \o Lower(first_surname))
         IN  user_name \o LastTwo(enrollment_id) \o <<"@">> \o domain

build_email(p, domain) ==
    IF p.cls = "Teacher" THEN Teacher_build_email(p.firstname, p.lastname, domain)
    ELSE Student_build_email(p.firstname, p.lastname, p.enrollment_id, domain)

\* random_number_only_password(8): eight random digits, kept abstract
RandomPassword == "<8 random digits>"

\* generate_account_attributes: the person with its password and e-mail set
generate_account_attributes(p, domain) ==
    [p EXCEPT !.password = RandomPassword, !.email = build_email(p, domain)]

(***************************************************************************)
(* Persons.  None is the empty text; an object is referred to by           *)
(* <<"g", i>> (the i-th account read from the Google Suite export) or      *)
(* <<"d", i>> (the i-th person read from the Delphos rows): SchoolPerson   *)
(* defines neither __eq__ nor __hash__, so sets of persons go by identity. *)
(***************************************************************************)
None == <<>>

\* SchoolPerson.__init__ and Student.__init__
Person(cls, firstname, lastname, email, org_path_unit, course, enrollment_id) ==
    [cls |-> cls, firstname |-> firstname, lastname |-> lastname,
     fullname |-> firstname \o <<" ">> \o lastname,
     email |-> email, org_path_unit |-> org_path_unit, is_lost |-> FALSE,
     password |-> LEAVE_PASSWORD_STR, course |-> course, enrollment_id |-> enrollment_id,
     enrollment_year |-> IF enrollment_id # None THEN Split(enrollment_id, <<"/">>)[1] ELSE None]

\* SchoolPerson.as_csv_dict
as_csv_dict(p) ==
    [firstname |-> p.firstname, lastname |-> p.lastname, email |-> p.email,
     password |-> p.password, org_path_unit |-> p.org_path_unit,
     change_password |-> IF p.password # LEAVE_PASSWORD_STR THEN "TRUE" ELSE ""]

\* SchoolPerson.from_google_csv under generate_person_from_google: a row of the
\* export, of which the columns 0, 1, 2 and 5 are read; a Teacher when the last
\* segment of the path is "Profesores"
generate_person_from_google(row) ==
    Person(IF row.org_path_unit # <<>> /\ row.org_path_unit[Len(row.org_path_unit)] = "Profesores"
           THEN "Teacher" ELSE "Student",
           Strip(row.firstname), Strip(row.lastname), row.email, row.org_path_unit, None, None)

\* Teacher.from_csv: the person, or error = TRUE for IncorrectCsvValueError
Teacher_from_csv(csv_data) ==
    LET name_list == Split(csv_data[1], <<",", " ">>)
    IN  IF Len(name_list) # 2 THEN [error |-> TRUE, person |-> None]
        ELSE [error |-> FALSE,
              person |-> Person("Teacher", Strip(name_list[2]), Strip(name_list[1]),
                                None, None, None, None)]

\* Student.from_csv: the person, or error = TRUE for IncorrectCsvValueError
Student_from_csv(csv_data) ==
    IF Len(csv_data) < EXPECTED_COLS_STUDENT THEN [error |-> TRUE, person |-> None]
    ELSE LET name_list == Split(csv_data[1], <<",", " ">>)
             divide_course_list == Split(csv_data[2], <<"º", " ">>)
         IN  IF Len(name_list) # 2 THEN [error |-> TRUE, person |-> None]
             ELSE IF Len(divide_course_list) # 2 THEN [error |-> TRUE, person |-> None]
             ELSE [error |-> FALSE,
                   person |-> Person("Student", Strip(name_list[2]), Strip(name_list[1]),
                                     None, None,
                                     Strip(divide_course_list[1] \o <<"-">> \o divide_course_list[2]),
                                     Strip(csv_data[3]))]

(***************************************************************************)
(* Inputs of a run: the command line, the rows of the Google Suite export, *)
(* the rows of the Delphos files, the requested courses.                   *)
(***************************************************************************)
ArgDomain == <<"d", "o", "m">>
ArgYear == "2021-2022"
\* create_context: org_unit_path "/Curso <year>/" and the leading digits of the year
ContextOrgPathUnit == <<"Curso " \o ArgYear>>
ContextCurrentYear == <<"2", "0", "2", "1">>

GarciaAna == <<"G", "a", "r", "c", "í", "a", ",", " ", "A", "n", "a">>
GarciaAlba == <<"G", "a", "r", "c", "i", "a", ",", " ", "A", "l", "b", "a">>
GarciaGilAngel == <<"G", "a", "r", "c", "í", "a", " ", "G", "i", "l", ",", " ", "Á", "n", "g", "e", "l">>
Course1A == <<"1", "º", " ", "A">>
Course2B == <<"2", "º", " ", "B">>
Enrollment045 == <<"2", "0", "2", "1", "/", "0", "4", "5">>
Enrollment145 == <<"2", "0", "2", "0", "/", "1", "4", "5">>

\* well-formed Delphos rows: three persons whose e-mail starts with agarcia, the
\* first two of the same course and with the same last two enrollment characters
GoodRows ==
    { <<GarciaAna, Course1A, Enrollment045>>,
      <<GarciaAlba, Course1A, Enrollment145>>,
      <<GarciaGilAngel, Course2B, Enrollment045>> }

\* malformed Delphos rows: two columns; a name without ", "; a course without "º "
BadRows ==
    { <<GarciaAna, Course1A>>,
      <<<<"A", "n", "a", " ", "G", "a", "r", "c", "í", "a">>, Course1A, Enrollment045>>,
      <<GarciaAna, <<"1", "º", "A">>, Enrollment045>> }

RowPool == GoodRows \cup BadRows

\* rows of the Google Suite export: a student, a teacher, and a second account
\* with the full name of the first
GoogleRows ==
    << [firstname |-> <<"A", "n", "a">>, lastname |-> <<"G", "a", "r", "c", "í", "a">>,
        email |-> <<"a", "g", "a", "r", "c", "i", "a", "4", "5", "@", "d", "o", "m">>,
        org_path_unit |-> <<"Curso 2020-2021", "1-A">>],
       [firstname |-> <<"A", "n", "d", "r", "é", "s">>, lastname |-> <<"G", "a", "r", "c", "í", "a">>,
        email |-> <<"a", "g", "a", "r", "c", "i", "a", "@", "d", "o", "m">>,
        org_path_unit |-> <<"Curso 2020-2021", "Profesores">>],
       [firstname |-> <<"A", "n", "a">>, lastname |-> <<"G", "a", "r", "c", "í", "a", " ">>,
        email |-> <<"a", "g", "a", "r", "c", "i", "a", "2", "@", "d", "o", "m">>,
        org_path_unit |-> <<"Curso 2020-2021", "Profesores">>] >>

\* rows of the course file (course, unit path); 3-C has no student
CoursePool ==
    { [course |-> <<"1", "-", "A">>, unit_path |-> <<"1-A">>],
      [course |-> <<"2", "-", "B">>, unit_path |-> <<"2-B">>],
      [course |-> <<"3", "-", "C">>, unit_path |-> <<"3-C">>] }

(***************************************************************************)
(* State of a run.                                                         *)
(***************************************************************************)
VARIABLES
    action,            \* args.action
    reallocate,        \* args.reallocate
    run,               \* 1: the run; 2: the run again, on the directory with run 1's accounts
    pc,                \* where main is
    roster,            \* the Delphos rows read so far by run 1 (run 2 reads them again)
    requests,          \* the rows of the course file handled so far by run 1
    row_i,             \* rows read by this run
    req_i,             \* course rows handled by this run
    google_users,      \* the person objects of the export, by index
    snapshot,          \* the indices of the accounts get_google_csv_data returned
    delphos,           \* the person objects of the Delphos rows, in reading order
    all_google_users,  \* context.all_google_users
    all_emails,        \* context.all_emails, once computed
    emails_cached,     \* whether the cached property all_emails has been computed
    group,             \* locals of generate_new_students / generate_new_teachers
    old_email,         \* local of change_email_if_needed
    created,           \* the persons the generate_new_* loops have completed, in order
    log,               \* logger.messages, as the set of the messages shown
    files,             \* the csv files written, by name
    prev               \* the Delphos persons as run 1 left them

vars == <<action, reallocate, run, pc, roster, requests, row_i, req_i, google_users,
          snapshot, delphos, all_google_users, all_emails, emails_cached, group,
          old_email, created, log, files, prev>>

Msg(kind, who, a, b) == [kind |-> kind, who |-> who, a |-> a, b |-> b]

NoGroup == [course |-> None, org_path |-> <<>>, members |-> <<>>, new |-> <<>>, k |-> 0]

Obj(ref) == IF ref[1] = "g" THEN google_users[ref[2]] ELSE delphos[ref[2]]

\* SchoolContext.all_emails: a cached property, computed from all_google_users
\* as it is when first read
Emails == IF emails_cached THEN all_emails ELSE {Obj(r).email : r \in all_google_users}

\* course_to_students[course]: the students of a course, in reading order
CourseStudents(course) ==
    SelectSeq([i \in 1..Len(delphos) |-> i], LAMBDA i : delphos[i].course = course)

AllDelphos == [i \in 1..Len(delphos) |-> i]

\* the loop taking the new persons last to first
Current_Reversed == group.new[Len(group.new) + 1 - group.k]

\* the person handled by the loop of generate_new_students / generate_new_teachers
Current == group.new[group.k]

\* some sequence of the elements of a finite set, each once
SeqOf(S) ==
    CHOOSE q \in [1..Cardinality(S) -> S] : \A x \in S : \E i \in 1..Cardinality(S) : q[i] = x

Init ==
    /\ action \in {"generar-profesores", "generar-alumnos"}
    /\ reallocate \in BOOLEAN
    /\ run = 1
    /\ pc = "load"
    /\ roster = <<>>
    /\ requests = <<>>
    /\ row_i = 0
    /\ req_i = 0
    /\ google_users = [i \in 1..Len(GoogleRows) |-> generate_person_from_google(GoogleRows[i])]
    /\ snapshot \in SUBSET (1..Len(GoogleRows))
    /\ delphos = <<>>
    /\ all_google_users = {<<"g", i>> : i \in snapshot}
    /\ all_emails = {}
    /\ emails_cached = FALSE
    /\ group = NoGroup
    /\ old_email = None
    /\ created = <<>>
    /\ log = {}
    /\ files = <<>>
    /\ prev = <<>>

(***************************************************************************)
(* load_students / load_teachers, one row at a time.                       *)
(***************************************************************************)
from_csv(row) ==
    IF action = "generar-profesores" THEN Teacher_from_csv(row) ELSE Student_from_csv(row)

\* load_students / load_teachers going on to the next row after a row from_csv
\* refuses
LoadRow_SkipBad ==
    /\ pc = "load"
    /\ \E row \in RowPool :
        /\ IF run = 1 THEN Len(roster) < MaxRows
           ELSE row_i < Len(roster) /\ row = roster[row_i + 1]
        /\ roster' = IF run = 1 THEN Append(roster, row) ELSE roster
        /\ row_i' = row_i + 1
        /\ LET r == from_csv(row)
           IN  IF r.error
               THEN /\ pc' = "load"
                    /\ log' = log \cup {Msg("ERROR csv", None, None, None)}
                    /\ delphos' = delphos
               ELSE /\ pc' = "load"
                    /\ log' = log
                    /\ delphos' = Append(delphos, r.person)
    /\ UNCHANGED <<action, reallocate, run, requests, req_i, google_users, snapshot,
                   all_google_users, all_emails, emails_cached, group, old_email,
                   created, files, prev>>

LoadRow ==
    /\ pc = "load"
    /\ \E row \in RowPool :
        /\ IF run = 1 THEN Len(roster) < MaxRows
           ELSE row_i < Len(roster) /\ row = roster[row_i + 1]
        /\ roster' = IF run = 1 THEN Append(roster, row) ELSE roster
        /\ row_i' = row_i + 1
        /\ LET r == from_csv(row)
           IN  IF r.error
               THEN /\ pc' = "exit1"       \* sys.exit(1)
                    /\ log' = log \cup {Msg("ERROR csv", None, None, None)}
                    /\ delphos' = delphos
               ELSE /\ pc' = "load"
                    /\ log' = log
                    /\ delphos' = Append(delphos, r.person)
    /\ UNCHANGED <<action, reallocate, run, requests, req_i, google_users, snapshot,
                   all_google_users, all_emails, emails_cached, group, old_email,
                   created, files, prev>>

EndLoad ==
    /\ pc = "load"
    /\ run = 2 => row_i = Len(roster)
    /\ pc' = "reference"
    /\ UNCHANGED <<action, reallocate, run, roster, requests, row_i, req_i, google_users,
                   snapshot, delphos, all_google_users, all_emails, emails_cached, group,
                   old_email, created, log, files, prev>>

(***************************************************************************)
(* SchoolContext.create_single_reference.  The two dictionaries keep one   *)
(* person per full name: of the Delphos list the last one, of the set of   *)
(* Google accounts the one the set's iteration yields last, which is any.  *)
(***************************************************************************)
GoogleNames == {Obj(r).fullname : r \in all_google_users}

\* name_delphos_users[name]
LastDelphos(people, name) ==
    CHOOSE i \in 1..Len(people) :
        /\ people[i].fullname = name
        /\ \A j \in (i + 1)..Len(people) : people[j].fullname # name

CreateSingleReference ==
    /\ pc = "reference"
    /\ \E name_google_users \in [GoogleNames -> all_google_users] :
        /\ \A n \in GoogleNames : Obj(name_google_users[n]).fullname = n
        /\ LET matched == {n \in GoogleNames : \E i \in 1..Len(delphos) : delphos[i].fullname = n}
               base(n) == LastDelphos(delphos, n)
               from(i) == CHOOSE n \in matched : base(n) = i
           IN  /\ delphos' = [i \in 1..Len(delphos) |->
                                IF \E n \in matched : base(n) = i
                                THEN [delphos[i] EXCEPT
                                        !.email = Obj(name_google_users[from(i)]).email,
                                        !.org_path_unit = Obj(name_google_users[from(i)]).org_path_unit]
                                ELSE delphos[i]]
               /\ google_users' = [i \in 1..Len(google_users) |->
                                IF \E n \in GoogleNames \ matched : name_google_users[n] = <<"g", i>>
                                THEN [google_users[i] EXCEPT !.is_lost = TRUE]
                                ELSE google_users[i]]
               /\ all_google_users' = {<<"d", base(n)>> : n \in matched}
                                        \cup {name_google_users[n] : n \in GoogleNames \ matched}
    /\ pc' = IF action = "generar-profesores" THEN "teachers" ELSE "courses"
    /\ UNCHANGED <<action, reallocate, run, roster, requests, row_i, req_i, snapshot,
                   all_emails, emails_cached, group, old_email, created, log, files, prev>>

(***************************************************************************)
(* write_users, generate_reallocated_users, generate_lost_users            *)
(***************************************************************************)
OutputTeachers == <<"profes-generados.csv">>
OutputStudents(course) == <<"alumnos-nuevos/">> \o course \o <<".csv">>
LostTeachersFile == <<"bajas-profesores.csv">>
LostStudentsFile == <<"bajas-alumnos.csv">>

\* write_users: the files after writing the rows of the users to filename
write_users(fs, rows, filename) == (filename :> rows) @@ fs

\* generate_reallocated_users: the Delphos persons with the users moved to org_path
Reallocated(users, org_path) ==
    [i \in 1..Len(delphos) |->
        IF i \in Range(users)
        THEN [delphos[i] EXCEPT !.org_path_unit = ContextOrgPathUnit \o org_path]
        ELSE delphos[i]]

\* generate_reallocated_users: the messages it shows
ReallocatedLog(users, org_path) ==
    {Msg("AVISO en Delphos pero no en Google Suite", delphos[i].fullname, None, None) :
        i \in {j \in Range(users) : <<"d", j>> \notin all_google_users}}
    \cup
    {LET old_path_unit == delphos[i].org_path_unit
         new_path_unit == ContextOrgPathUnit \o org_path
     IN  IF old_path_unit # None /\ old_path_unit # new_path_unit
         THEN Msg("Recolocando", delphos[i].fullname, old_path_unit, new_path_unit)
         ELSE IF old_path_unit = new_path_unit
         THEN Msg("YA COLOCADO", delphos[i].fullname, None, new_path_unit)
         ELSE Msg("Añadiendo", delphos[i].fullname, None, new_path_unit) :
        i \in Range(users)}

\* generate_lost_users testing the flag the wrong way round
LostUsers_NotLost(users) ==
    IF users = <<>> THEN {}
    ELSE {r \in all_google_users :
            (IF r[1] = "g" THEN google_users[r[2]] ELSE delphos[r[2]]).cls = delphos[users[1]].cls
            /\ ~(IF r[1] = "g" THEN google_users[r[2]] ELSE delphos[r[2]]).is_lost}

\* generate_lost_users: the accounts it returns; none for an empty list of users,
\* else the lost accounts of the class of the first user
LostUsers(users) ==
    IF users = <<>> THEN {}
    ELSE {r \in all_google_users : Obj(r).cls = delphos[users[1]].cls /\ Obj(r).is_lost}

\* generate_lost_users: the Google accounts with the lost ones moved to org_path
Lost(users, org_path) ==
    [i \in 1..Len(google_users) |->
        IF <<"g", i>> \in LostUsers(users)
        THEN [google_users[i] EXCEPT !.org_path_unit = ContextOrgPathUnit \o org_path]
        ELSE google_users[i]]

LostLog(users, org_path) ==
    {Msg("BAJA Moviendo", Obj(r).fullname, Obj(r).org_path_unit, ContextOrgPathUnit \o org_path) :
        r \in LostUsers(users)}

\* the orders in which the set all_google_users may yield the lost accounts
LostOrders(users) ==
    {q \in [1..Cardinality(LostUsers(users)) -> LostUsers(users)] :
        \A r \in LostUsers(users) : \E i \in DOMAIN q : q[i] = r}

(***************************************************************************)
(* generate_new_teachers_command                                           *)
(***************************************************************************)
TeachersReallocate ==
    /\ pc = "teachers"
    /\ reallocate
    /\ delphos' = Reallocated(AllDelphos, <<"Profesores">>)
    /\ google_users' = Lost(AllDelphos, <<"Bajas", "Profesores">>)
    /\ log' = log \cup ReallocatedLog(AllDelphos, <<"Profesores">>)
                  \cup LostLog(AllDelphos, <<"Bajas", "Profesores">>)
    /\ \E order \in LostOrders(AllDelphos) :
        files' = write_users(
                    write_users(files, [i \in 1..Len(delphos) |-> as_csv_dict(delphos'[i])],
                                OutputTeachers),
                    [i \in DOMAIN order |-> as_csv_dict(google_users'[order[i][2]])],
                    LostTeachersFile)
    /\ pc' = "done"
    /\ UNCHANGED <<action, reallocate, run, roster, requests, row_i, req_i, snapshot,
                   all_google_users, all_emails, emails_cached, group, old_email,
                   created, prev>>

\* write_new_teachers, generate_new_teachers: up to its loop
TeachersNew ==
    /\ pc = "teachers"
    /\ ~reallocate
    /\ group' = [course |-> None, org_path |-> <<"Profesores">>, members |-> AllDelphos,
                 new |-> SelectSeq(AllDelphos, LAMBDA i : <<"d", i>> \notin all_google_users),
                 k |-> 1]
    /\ pc' = "new"
    /\ UNCHANGED <<action, reallocate, run, roster, requests, row_i, req_i, google_users,
                   snapshot, delphos, all_google_users, all_emails, emails_cached,
                   old_email, created, log, files, prev>>

(***************************************************************************)
(* generate_new_students_command: _create_specific_course for the next row *)
(* of the course file (--manual is a course file of one row), and the end. *)
(***************************************************************************)
NextRequest(c) ==
    IF run = 1 THEN req_i < MaxCourses
    ELSE req_i < Len(requests) /\ c = requests[req_i + 1]

Requested(c) ==
    /\ requests' = IF run = 1 THEN Append(requests, c) ELSE requests
    /\ req_i' = req_i + 1

\* _create_specific_course leaving the program at a course that is not in
\* course_to_students
CourseMissing_Exit ==
    /\ pc = "courses"
    /\ \E c \in CoursePool :
        /\ NextRequest(c)
        /\ Requested(c)
        /\ CourseStudents(c.course) = <<>>
        /\ log' = log \cup {Msg("AVISO No se ha encontrado el curso", c.course, None, None)}
    /\ pc' = "exit1"
    /\ UNCHANGED <<action, reallocate, run, roster, row_i, google_users, snapshot,
                   delphos, all_google_users, all_emails, emails_cached, group, old_email,
                   created, files, prev>>

\* the course is not in course_to_students
CourseMissing ==
    /\ pc = "courses"
    /\ \E c \in CoursePool :
        /\ NextRequest(c)
        /\ Requested(c)
        /\ CourseStudents(c.course) = <<>>
        /\ log' = log \cup {Msg("AVISO No se ha encontrado el curso", c.course, None, None)}
    /\ UNCHANGED <<action, reallocate, run, pc, roster, row_i, google_users, snapshot,
                   delphos, all_google_users, all_emails, emails_cached, group, old_email,
                   created, files, prev>>

CourseReallocate ==
    /\ pc = "courses"
    /\ reallocate
    /\ \E c \in CoursePool :
        /\ NextRequest(c)
        /\ Requested(c)
        /\ CourseStudents(c.course) # <<>>
        /\ delphos' = Reallocated(CourseStudents(c.course), c.unit_path)
        /\ log' = log \cup ReallocatedLog(CourseStudents(c.course), c.unit_path)
        /\ files' = write_users(files,
                        [k \in 1..Len(CourseStudents(c.course)) |->
                            as_csv_dict(delphos'[CourseStudents(c.course)[k]])],
                        OutputStudents(c.course))
    /\ UNCHANGED <<action, reallocate, run, pc, roster, row_i, google_users, snapshot,
                   all_google_users, all_emails, emails_cached, group, old_email,
                   created, prev>>

\* write_new_students, generate_new_students: up to its loop
CourseNew ==
    /\ pc = "courses"
    /\ ~reallocate
    /\ \E c \in CoursePool :
        /\ NextRequest(c)
        /\ Requested(c)
        /\ CourseStudents(c.course) # <<>>
        /\ group' = [course |-> c.course, org_path |-> c.unit_path,
                     members |-> CourseStudents(c.course),
                     new |-> SelectSeq(CourseStudents(c.course),
                                       LAMBDA i : <<"d", i>> \notin all_google_users),
                     k |-> 1]
    /\ pc' = "new"
    /\ UNCHANGED <<action, reallocate, run, roster, row_i, google_users, snapshot, delphos,
                   all_google_users, all_emails, emails_cached, old_email, created, log,
                   files, prev>>

EndCourses ==
    /\ pc = "courses"
    /\ run = 2 => req_i = Len(requests)
    /\ IF reallocate
       THEN /\ google_users' = Lost(AllDelphos, <<"Bajas", "Alumnos">>)
            /\ log' = log \cup LostLog(AllDelphos, <<"Bajas", "Alumnos">>)
            /\ \E order \in LostOrders(AllDelphos) :
                files' = write_users(files,
                            [i \in DOMAIN order |-> as_csv_dict(google_users'[order[i][2]])],
                            LostStudentsFile)
       ELSE UNCHANGED <<google_users, log, files>>
    /\ pc' = "done"
    /\ UNCHANGED <<action, reallocate, run, roster, requests, row_i, req_i, snapshot,
                   delphos, all_google_users, all_emails, emails_cached, group, old_email,
                   created, prev>>

(***************************************************************************)
(* The loop of generate_new_students / generate_new_teachers, and          *)
(* change_email_if_needed within it.                                       *)
(***************************************************************************)
\* the body of the loop up to the call of change_email_if_needed; reading
\* context.all_emails for the call computes the cached property
StartRecord ==
    /\ pc = "new"
    /\ group.k <= Len(group.new)
    /\ LET placed == [delphos[Current] EXCEPT
                        !.org_path_unit = ContextOrgPathUnit \o group.org_path]
           person == generate_account_attributes(placed, ArgDomain)
       IN  IF Raised(person.email)
           THEN /\ delphos' = [delphos EXCEPT ![Current] = [person EXCEPT !.email = placed.email]]
                /\ pc' = "crash"           \* IndexError, not caught
                /\ UNCHANGED <<all_emails, emails_cached>>
           ELSE /\ delphos' = [delphos EXCEPT ![Current] = person]
                /\ pc' = "resolve"
                /\ all_emails' = Emails
                /\ emails_cached' = TRUE
    /\ old_email' = None
    /\ UNCHANGED <<action, reallocate, run, roster, requests, row_i, req_i, google_users,
                   snapshot, all_google_users, group, created, log, files, prev>>

\* one turn of the while loop of change_email_if_needed
UpdateEmailStep ==
    /\ pc = "resolve"
    /\ delphos[Current].email \in all_emails
    /\ old_email' = delphos[Current].email
    /\ LET email == update_email(delphos[Current].cls, delphos[Current].email)
       IN  IF Raised(email)
           THEN /\ pc' = "crash"           \* ValueError, not caught
                /\ UNCHANGED <<delphos, log>>
           ELSE /\ pc' = "resolve"
                /\ delphos' = [delphos EXCEPT ![Current].email = email]
                /\ log' = log \cup {Msg("AVISO ya existe", None, delphos[Current].email, email)}
    /\ UNCHANGED <<action, reallocate, run, roster, requests, row_i, req_i, google_users,
                   snapshot, all_google_users, all_emails, emails_cached, group, created,
                   files, prev>>

\* change_email_if_needed without its all_emails.add
ChangeEmailReturn_NoAdd ==
    /\ pc = "resolve"
    /\ delphos[group.new[group.k]].email \notin all_emails
    /\ pc' = "created"
    /\ UNCHANGED <<action, reallocate, run, roster, requests, row_i, req_i, google_users,
                   snapshot, delphos, all_google_users, all_emails, emails_cached, group,
                   old_email, created, log, files, prev>>

\* the end of change_email_if_needed: all_emails.add(person.email)
ChangeEmailReturn ==
    /\ pc = "resolve"
    /\ delphos[Current].email \notin all_emails
    /\ all_emails' = all_emails \cup {delphos[Current].email}
    /\ pc' = "created"
    /\ UNCHANGED <<action, reallocate, run, roster, requests, row_i, req_i, google_users,
                   snapshot, delphos, all_google_users, emails_cached, group, old_email,
                   created, log, files, prev>>

\* the rest of the body of the loop
RecordCreated ==
    /\ pc = "created"
    /\ log' = log \cup
            {Msg(IF delphos[Current].cls = "Teacher" THEN "Creando"
                 ELSE IF delphos[Current].enrollment_year = ContextCurrentYear
                 THEN "NUEVA MATRÍCULA Creando" ELSE "CASO EXTRAÑO Creando",
                 delphos[Current].fullname, delphos[Current].email,
                 delphos[Current].org_path_unit)}
    /\ created' = Append(created, [who |-> Current, email |-> delphos[Current].email])
    /\ group' = [group EXCEPT !.k = group.k + 1]
    /\ pc' = "new"
    /\ UNCHANGED <<action, reallocate, run, roster, requests, row_i, req_i, google_users,
                   snapshot, delphos, all_google_users, all_emails, emails_cached,
                   old_email, files, prev>>

\* after the loop: the warnings of generate_new_*, and write_users in write_new_*
FinishGroup ==
    /\ pc = "new"
    /\ group.k > Len(group.new)
    /\ log' = log \cup
            IF action = "generar-profesores"
            THEN IF group.new = <<>>
                 THEN {Msg("AVISO No hay profesores nuevos", None, None, None)} ELSE {}
            ELSE IF group.new = <<>> /\ group.members # <<>>
                 THEN {Msg("AVISO No hay ningún alumno nuevo de", group.course, None, None)}
                 ELSE IF group.members = <<>>
                 THEN {Msg("ERROR No hay ningún alumno en la lista", None, None, None)}
                 ELSE {}
    /\ files' = IF group.new # <<>>
                THEN write_users(files,
                        [k \in 1..Len(group.new) |-> as_csv_dict(delphos[group.new[k]])],
                        IF action = "generar-profesores" THEN OutputTeachers
                        ELSE OutputStudents(group.course))
                ELSE files
    /\ pc' = IF action = "generar-profesores" THEN "done" ELSE "courses"
    /\ UNCHANGED <<action, reallocate, run, roster, requests, row_i, req_i, google_users,
                   snapshot, delphos, all_google_users, all_emails, emails_cached, group,
                   old_email, created, prev>>

(***************************************************************************)
(* The run again: the accounts of the files run 1 wrote are in the export  *)
(* now, and main runs on the same command line and the same Delphos files. *)
(***************************************************************************)
WrittenRows == UNION {Range(files[f]) : f \in DOMAIN files}

Rerun ==
    /\ pc = "done"
    /\ run = 1
    /\ ~reallocate
    /\ run' = 2
    /\ LET rows == SeqOf(WrittenRows)
       IN  /\ google_users' =
                [i \in 1..Len(GoogleRows) |-> generate_person_from_google(GoogleRows[i])]
                \o [i \in 1..Len(rows) |-> generate_person_from_google(rows[i])]
           /\ snapshot' = snapshot \cup {Len(GoogleRows) + i : i \in 1..Len(rows)}
    /\ all_google_users' = {<<"g", i>> : i \in snapshot'}
    /\ prev' = delphos
    /\ delphos' = <<>>
    /\ row_i' = 0
    /\ req_i' = 0
    /\ all_emails' = {}
    /\ emails_cached' = FALSE
    /\ group' = NoGroup
    /\ old_email' = None
    /\ created' = <<>>
    /\ log' = {}
    /\ pc' = "load"
    /\ UNCHANGED <<action, reallocate, roster, requests, files>>

Next ==
    \/ LoadRow
    \/ EndLoad
    \/ CreateSingleReference
    \/ TeachersReallocate
    \/ TeachersNew
    \/ CourseMissing
    \/ CourseReallocate
    \/ CourseNew
    \/ EndCourses
    \/ StartRecord
    \/ UpdateEmailStep
    \/ ChangeEmailReturn
    \/ RecordCreated
    \/ FinishGroup
    \/ Rerun

Spec == Init /\ [][Next]_vars

(***************************************************************************)
(* One new person through generate_account_attributes and                  *)
(* change_email_if_needed: the state on entry to the loop of               *)
(* generate_new_students / generate_new_teachers for a list of one person, *)
(* with the person and the e-mails in use drawn from the sets below.       *)
(***************************************************************************)
PersonNames ==
    { <<"N", "ú", "ñ", "e", "z", " ", "G", "i", "l", ",", " ", "Á", "n", "g", "e", "l">>,
      <<"M", "o", "n", "t", "l", "l", "ò", ",", " ", "A", "n", "a">>,
      <<",", " ", "A", "n", "a">> }

PersonEnrollments ==
    { Enrollment045,
      <<"2", "0", "2", "1", "/", "0", "0", "3">>,
      <<"2", "0", "2", "1", "/", "0", "9", "9">>,
      <<"2", "0", "2", "1", "/", "0", "4", "B">>,
      <<"2", "0", "2", "1", "/", "5">>,
      <<"9">> }

PersonRows == {<<n, Course1A, e>> : n \in PersonNames, e \in PersonEnrollments}

AtDom(local) == local \o <<"@">> \o ArgDomain
Anunez == <<"a", "n", "u", "n", "e", "z">>
Amontllo == <<"a", "m", "o", "n", "t", "l", "l", "ò">>

StudentEmailsInUse ==
    { AtDom(Anunez \o <<"4", "5">>), AtDom(Anunez \o <<"4", "6">>), AtDom(Anunez \o <<"0", "3">>),
      AtDom(Anunez \o <<"9", "9">>), AtDom(Anunez \o <<"4", "B">>), AtDom(Anunez \o <<"/", "5">>),
      AtDom(Anunez \o <<"9">>), AtDom(Amontllo \o <<"4", "5">>) }

TeacherEmailsInUse ==
    { AtDom(Anunez), AtDom(Anunez \o <<"2">>), AtDom(Anunez \o <<"3">>), AtDom(Amontllo) }

PersonInit ==
    /\ action \in {"generar-profesores", "generar-alumnos"}
    /\ reallocate = FALSE
    /\ run = 1
    /\ pc = "new"
    /\ roster = <<>>
    /\ requests = <<>>
    /\ row_i = 0
    /\ req_i = 0
    /\ google_users = <<>>
    /\ snapshot = {}
    /\ \E row \in PersonRows : delphos = <<from_csv(row).person>>
    /\ all_google_users = {}
    /\ all_emails \in SUBSET (IF action = "generar-profesores" THEN TeacherEmailsInUse
                              ELSE StudentEmailsInUse)
    /\ emails_cached = TRUE
    /\ group = [course |-> IF action = "generar-profesores" THEN None ELSE <<"1", "-", "A">>,
                org_path |-> IF action = "generar-profesores" THEN <<"Profesores">> ELSE <<"1-A">>,
                members |-> <<1>>, new |-> <<1>>, k |-> 1]
    /\ old_email = None
    /\ created = <<>>
    /\ log = {}
    /\ files = <<>>
    /\ prev = <<>>

PersonNext ==
    \/ StartRecord
    \/ UpdateEmailStep
    \/ ChangeEmailReturn

PersonSpec == PersonInit /\ [][PersonNext]_vars

(***************************************************************************)
(* Properties.                                                             *)
(***************************************************************************)
CreatedDistinct == \A i, j \in DOMAIN created : i # j => created[i].email # created[j].email

\* C1. Uniqueness over a whole run: while change_email_if_needed runs for a
\* person the set of e-mails in use stays as it was at the call; the e-mail it
\* ends with is not in that set and is added to it; and the e-mails of the
\* persons created so far are pairwise distinct and all in use.
C1_Uniqueness ==
    [][ /\ (pc = "resolve" /\ pc' = "resolve") => all_emails' = all_emails
        /\ (pc = "resolve" /\ pc' = "created") =>
              /\ delphos'[Current].email \notin all_emails
              /\ all_emails' = all_emails \cup {delphos'[Current].email}
        /\ (pc = "created" /\ pc' = "new") =>
              /\ created'[Len(created')].email = delphos[Current].email
              /\ created'[Len(created')].email \in all_emails
        /\ CreatedDistinct' ]_vars

\* two persons created in a run in which an e-mail had to be changed
C1_Witness ==
    /\ Len(created) >= 2
    /\ \E m \in log : m.kind = "AVISO ya existe"

\* an e-mail whose text before "@" is letters and dots and then digits (for a
\* student, at least one digit): the format the program rewrites without error
Rewritable(cls, email) ==
    /\ email # <<>>
    /\ MatchesAt(email, 1)
    /\ MatchAt(email, 1).end = IndexOf(email, "@")
    /\ cls = "Student" => MatchAt(email, 1).last_nums # <<>>

\* C2. Collision resolution terminates.  The loop of change_email_if_needed
\* has no state but the person's e-mail, so a turn that gives back the e-mail it
\* was given repeats for ever: every turn of the loop yields another e-mail, and
\* the loop ends only by registering an e-mail that was not in use.  Stated for
\* the e-mails of the format above; the claim is about every e-mail.
C2_ResolutionTerminates ==
    [][ (pc = "resolve" /\ Rewritable(delphos[Current].cls, delphos[Current].email)) =>
          /\ pc' \in {"resolve", "created"}
          /\ pc' = "resolve" => delphos'[Current].email # delphos[Current].email
          /\ pc' = "created" =>
                /\ delphos'[Current].email \notin all_emails
                /\ delphos'[Current].email \in all_emails' ]_vars

InSnapshot(name) == \E g \in snapshot : google_users[g].fullname = name

LostFile == IF action = "generar-profesores" THEN LostTeachersFile ELSE LostStudentsFile

\* the rows of the file of lost users
Orphaned == IF LostFile \in DOMAIN files THEN Range(files[LostFile]) ELSE {}

\* C3. Matched records are never treated as new: a Delphos person whose full
\* name is the full name of an account of the export is not among the new
\* persons of generate_new_*, and no account of that name is written as lost.
C3_MatchedNeverNew ==
    \A i \in 1..Len(delphos) :
        InSnapshot(delphos[i].fullname) =>
            /\ i \notin Range(group.new)
            /\ \A w \in DOMAIN created : created[w].who # i
            /\ \A row \in Orphaned :
                    row.firstname \o <<" ">> \o row.lastname # delphos[i].fullname
HasCounterpart(g) ==
    \E i \in 1..Len(delphos) : delphos[i].fullname = google_users[g].fullname

\* the account g of the export is a row of the file of lost users
ReportedOrphan(g) ==
    \E row \in Orphaned :
        /\ row.firstname = google_users[g].firstname
        /\ row.lastname = google_users[g].lastname
        /\ row.email = google_users[g].email

LostUsersDone == pc = "done" /\ reallocate

\* C4 as claimed. Orphan detection: after create_single_reference and
\* generate_lost_users, every account of the export whose full name is the full
\* name of no Delphos person is among the lost users, whatever the batch and
\* whatever the class of the account.
C4_EveryOrphanReported ==
    LostUsersDone => \A g \in snapshot : ~HasCounterpart(g) => ReportedOrphan(g)

\* C4 as amended. For a batch that is not empty, every account of the export
\* whose full name is the full name of no Delphos person, that is of the class
\* of the first person of the batch and is the account create_single_reference
\* kept for its full name, is among the lost users; of the accounts of one full
\* name one is kept.
C4_KeptOrphanOfBatchClassReported ==
    LostUsersDone =>
        \A g \in snapshot :
            ~HasCounterpart(g) =>
                /\ (delphos # <<>> /\ google_users[g].cls = delphos[1].cls
                        /\ <<"g", g>> \in all_google_users) => ReportedOrphan(g)
                /\ \E h \in snapshot :
                        /\ google_users[h].fullname = google_users[g].fullname
                        /\ <<"g", h>> \in all_google_users

\* a lost account is reported while another account of the export, of the
\* other class, has no counterpart either
C4_Witness ==
    /\ LostUsersDone
    /\ \E g, h \in snapshot :
        /\ ~HasCounterpart(g) /\ ReportedOrphan(g)
        /\ ~HasCounterpart(h) /\ ~ReportedOrphan(h)

\* the e-mail generate_account_attributes gives the i-th Delphos person
Candidate(i) == build_email(delphos[i], ArgDomain)

\* the number an e-mail ends its name with, 0 for none, and the name before it
SuffixNumber(email) ==
    LET at == IndexOf(email, "@")
        digits == {k \in 0..(at - 1) : \A m \in (at - k)..(at - 1) : IsDigit(email[m])}
        n == CHOOSE k \in digits : \A j \in digits : j <= k
    IN  IntOf(SubSeq(email, at - n, at - 1))

Stem(email) ==
    LET at == IndexOf(email, "@")
        digits == {k \in 0..(at - 1) : \A m \in (at - k)..(at - 1) : IsDigit(email[m])}
        n == CHOOSE k \in digits : \A j \in digits : j <= k
    IN  SubSeq(email, 1, at - 1 - n)

\* generate_new_* has left its loop
GroupDone == pc = "new" /\ group.k > Len(group.new)

\* the e-mails in use when the loop of generate_new_* started
GroupSeed == all_emails \ {delphos[group.new[j]].email : j \in 1..Len(group.new)}

\* the e-mails in use when the loop came to its a-th person
InUseBefore(a) == GroupSeed \cup {delphos[group.new[j]].email : j \in 1..(a - 1)}

SameCandidate(a, b) ==
    /\ a < b
    /\ Candidate(group.new[a]) = Candidate(group.new[b])

C6_Idempotent ==
    run = 2 =>
        /\ created = <<>>
        /\ ~emails_cached
        /\ pc = "done" =>
              \A i \in 1..Len(delphos) : delphos[i].email = prev[i].email
\* the text of an e-mail from its "@" on
FromAt(email) == SubSeq(email, IndexOf(email, "@"), Len(email))

TwoDigits(n) == IF n < 10 THEN <<"0">> \o StrOf(n) ELSE StrOf(n)

\* the rewrite of a student e-mail as claimed
ClaimedStudentRewrite(email) ==
    Stem(email) \o TwoDigits(SuffixNumber(email) + 1) \o FromAt(email)

\* the name of the e-mail, before its "@", is made of letters, dots and digits
PlainName(email) ==
    \A i \in 1..(IndexOf(email, "@") - 1) : IsLetterOrDot(email[i]) \/ IsDigit(email[i])

\* C7. Student collision rewrite: one turn of the loop of change_email_if_needed
\* on a student's e-mail that is in use, with a name of letters, dots and
\* digits, adds 1 to the number the name ends with, 1 where it ends with no
\* digit, written with two digits when under 10, and leaves the e-mail from its
\* "@" on as it was.
C7_StudentRewrite ==
    [][ (/\ pc = "resolve"
         /\ delphos[Current].cls = "Student"
         /\ delphos[Current].email \in all_emails
         /\ PlainName(delphos[Current].email)) =>
            /\ pc' = "resolve"
            /\ delphos'[Current].email = ClaimedStudentRewrite(delphos[Current].email)
      ]_vars

\* the number of places of a text where a separator of two characters starts
Occurrences(s, a, b) == Cardinality({i \in 1..(Len(s) - 1) : s[i] = a /\ s[i + 1] = b})

\* a row of the roster that is malformed, as claimed: fewer than 3 columns for a
\* student, a name that is not one last name and one first name around ", ", a
\* course that is not a number and a letter around "º "
Malformed(row) ==
    IF action = "generar-profesores" THEN Occurrences(row[1], ",", " ") # 1
    ELSE \/ Len(row) < 3
         \/ Occurrences(row[1], ",", " ") # 1
         \/ Occurrences(row[2], "º", " ") # 1

\* C8. Malformed roster rejection: reading a malformed row of the roster, at
\* any position, ends the run with exit status 1 with no output file written;
\* a row that is not malformed is loaded and the reading goes on.
C8_MalformedRowAborts ==
    [][ (pc = "load" /\ row_i' = row_i + 1) =>
            IF Malformed(roster'[row_i'])
            THEN /\ pc' = "exit1"
                 /\ files' = <<>>
                 /\ delphos' = delphos
            ELSE /\ pc' = "load"
                 /\ Len(delphos') = Len(delphos) + 1
      ]_vars

\* the run has ended with exit status 1 at a malformed row that follows a
\* well-formed one
C8_Witness ==
    /\ pc = "exit1"
    /\ row_i >= 2
    /\ Len(delphos) >= 1
    /\ Malformed(roster[row_i])
    /\ files = <<>>

\* no person of the loaded roster is of the course
NoRecords(course) == \A i \in 1..Len(delphos) : delphos[i].course # course

MissingWarning(course) == Msg("AVISO No se ha encontrado el curso", course, None, None)

\* C9. Partial-batch continuation: at a requested course with no person in the
\* loaded roster a warning is given, no file is written and no person, account
\* or e-mail in use changes, and the run goes on to the next requested course.
C9_MissingCourseSkipped ==
    [][ (/\ pc = "courses"
         /\ req_i' = req_i + 1
         /\ NoRecords(requests'[req_i'].course)) =>
            /\ log' = log \cup {MissingWarning(requests'[req_i'].course)}
            /\ files' = files
            /\ delphos' = delphos
            /\ google_users' = google_users
            /\ all_google_users' = all_google_users
            /\ all_emails' = all_emails /\ emails_cached' = emails_cached
            /\ created' = created
            /\ pc' = "courses"
      ]_vars

\* the course requested first had no person and got a warning and no file, and
\* the file of the course requested after it is written
C9_Witness ==
    /\ Len(requests) >= 2
    /\ NoRecords(requests[1].course)
    /\ MissingWarning(requests[1].course) \in log
    /\ OutputStudents(requests[1].course) \notin DOMAIN files
    /\ ~NoRecords(requests[2].course)
    /\ OutputStudents(requests[2].course) \in DOMAIN files

\* the letter without its accent, as claimed: the accented vowels and ñ
Unaccented(c) ==
    CASE c = "á" -> "a" [] c = "é" -> "e" [] c = "í" -> "i" [] c = "ó" -> "o"
      [] c = "ú" -> "u" [] c = "ñ" -> "n" [] OTHER -> c

\* the first whitespace-delimited token of a text
FirstToken(s) ==
    LET starts == {i \in 1..Len(s) : s[i] \notin Whitespace}
        from == CHOOSE i \in starts : \A j \in starts : i <= j
        stops == {i \in from..Len(s) : s[i] \in Whitespace}
        to == IF stops = {} THEN Len(s)
              ELSE (CHOOSE i \in stops : \A j \in stops : i <= j) - 1
    IN  SubSeq(s, from, to)

HasToken(s) == \E i \in 1..Len(s) : s[i] \notin Whitespace

\* the student's e-mail as claimed
ClaimedStudentEmail(p) ==
    LET name == <<LowerChar(p.firstname[1])>> \o Lower(FirstToken(p.lastname))
    IN  [i \in 1..Len(name) |-> Unaccented(name[i])]
            \o SubSeq(p.enrollment_id, Len(p.enrollment_id) - 1, Len(p.enrollment_id))
            \o <<"@">> \o ArgDomain

Generable(p) ==
    /\ p.cls = "Student"
    /\ p.firstname # <<>>
    /\ HasToken(p.lastname)
    /\ Len(p.enrollment_id) >= 2

\* C10. Student identifier generation: a student with a first name, a last name
\* of at least one token and an enrollment id of at least 2 characters gets the
\* e-mail made of the lowercase first letter of the first name, the lowercase
\* first token of the last name, both without the accents of the vowels and of
\* ñ and otherwise unchanged, the last two characters of the enrollment id, "@"
\* and the domain; generating it does not fail.
C10_StudentEmail ==
    old_email = None /\ Generable(delphos[Current]) =>
        /\ pc # "crash"
        /\ pc = "resolve" => delphos[Current].email = ClaimedStudentEmail(delphos[Current])

\* 'Núñez Gil, Ángel' with enrollment id 2021/045 has got anunez45@dom
C10_Witness ==
    /\ pc = "resolve"
    /\ old_email = None
    /\ Generable(delphos[Current])
    /\ "ñ" \in Range(delphos[Current].lastname)
    /\ delphos[Current].email = AtDom(Anunez \o <<"4", "5">>)
\* the e-mails of the accounts of the loaded export
SnapshotEmails == {google_users[g].email : g \in snapshot}

CreatedAvoidSnapshot == \A w \in DOMAIN created : created[w].email \notin SnapshotEmails

\* C11. In-use set covers the snapshot: once context.all_emails is computed it
\* holds the e-mail of every account of the loaded export, also of accounts
\* that share a full name, so no created person gets the e-mail of an account
\* of the export.
C11_InUseCoversSnapshot ==
    /\ emails_cached => SnapshotEmails \subseteq all_emails
    /\ CreatedAvoidSnapshot
\* the digits the name of an e-mail ends with
TrailingDigits(email) == SubSeq(email, Len(Stem(email)) + 1, IndexOf(email, "@") - 1)

\* the rewrite of a teacher e-mail as claimed
ClaimedTeacherRewrite(email) ==
    IF TrailingDigits(email) = <<>>
    THEN Stem(email) \o <<"2">> \o FromAt(email)
    ELSE Stem(email) \o StrOf(IntOf(TrailingDigits(email)) + 1) \o FromAt(email)

\* C12. Teacher collision rewrite: one turn of the loop of
\* change_email_if_needed on a teacher's e-mail that is in use, with a name of
\* letters, dots and digits, appends 2 to a name that ends with no digit and
\* adds 1 to the number a name ends with.
C12_TeacherRewrite ==
    [][ (/\ pc = "resolve"
         /\ delphos[Current].cls = "Teacher"
         /\ delphos[Current].email \in all_emails
         /\ PlainName(delphos[Current].email)) =>
            /\ pc' = "resolve"
            /\ delphos'[Current].email = ClaimedTeacherRewrite(delphos[Current].email)
      ]_vars
\* the name of the e-mail is not letters and dots followed by optional digits:
\* before the digits it ends with, or before its "@", there is no letter or dot
Unrecognized(email) ==
    \/ Stem(email) = <<>>
    \/ ~IsLetterOrDot(Stem(email)[Len(Stem(email))])

\* C13. Unrecognized identifier format is an error: one turn of the loop of
\* change_email_if_needed on an e-mail in use whose name is not letters and
\* dots followed by optional digits ends with an error; the e-mail is neither
\* returned unchanged nor does the loop go on.
C13_UnrecognizedFails ==
    [][ (/\ pc = "resolve"
         /\ delphos[Current].email \in all_emails
         /\ Unrecognized(delphos[Current].email)) =>
            pc' = "crash"
      ]_vars

====
